---- MODULE Spec2Model ----
(***************************************************************************)
(* The extraction pipeline of dndbeyond_pdf_to_sheet.py: anchor location,  *)
(* anchor-relative field mapping, normalisation, the ability and skill     *)
(* parsers and the batched sheet write, run by main() in that order.       *)
(*                                                                         *)
(* Lines are strings, pages are sequences of lines, a document is a        *)
(* sequence of pages.  Sequences are 1-based here and 0-based in the       *)
(* program: every index held in the state is the program's 0-based index,  *)
(* and Item() converts on access.                                          *)
(***************************************************************************)
EXTENDS Integers, Sequences, FiniteSets, TLC

VARIABLES
  character_data,     \* main(): the loaded document
  anchor_points_map,  \* module-level anchor table
  mapped_data,        \* the record being built (a function from field name to value)
  pc,                 \* position of main() in the pipeline
  error,              \* the exception that aborted the run, or NoError
  skills,             \* parse_skill_saves: the roster list still to pop
  current_skill,      \* parse_skill_saves: the skill being filled, or NoSkill
  skill_saves_start,  \* parse_skill_saves: the scan position of the first loop
  current_position,   \* parse_skill_saves: the read position of the second loop
  batch_updates,      \* the bodies handed to ws.batch_update, in order
  first_run           \* the outcome of an earlier run of main() in this process

vars == <<character_data, anchor_points_map, mapped_data, pc, error, skills,
          current_skill, skill_saves_start, current_position, batch_updates,
         first_run>>

(* Python's None. *)
None == <<>>

(* current_skill = None; roster names are non-empty, so "not current_skill" is
   exactly this value. *)
NoSkill == ""

NoError == [stage |-> "", kind |-> "", field |-> ""]

Raise(stage, kind, field) == [stage |-> stage, kind |-> kind, field |-> field]

(* The anchor table keys, in the dict's insertion order. *)
AnchorKeys == <<"ABILITY SAVE DC", "=== ARMOR ===", "Resistances", "PERSONALITY TRAITS">>

(* character_data_to_sheet_fields_map, in the dict's insertion order: each entry is
   <<field, None>> or <<field, <<page_index, anchor_point, line_index>>>>. *)
character_data_to_sheet_fields_map ==
  <<
    <<"name", <<0, "ABILITY SAVE DC", 1>>>>,
    <<"class", <<0, "ABILITY SAVE DC", 2>>>>,
    <<"level", <<0, "ABILITY SAVE DC", 2>>>>,
    <<"subclass", None>>,
    <<"species", <<0, "ABILITY SAVE DC", 4>>>>,
    <<"background", <<0, "ABILITY SAVE DC", 5>>>>,
    <<"xp", <<0, "ABILITY SAVE DC", 6>>>>,
    <<"initiative", <<0, "=== ARMOR ===", -7>>>>,
    <<"armor_class", <<0, "=== ARMOR ===", -6>>>>,
    <<"speed", <<0, "=== ARMOR ===", -4>>>>,
    <<"hit_points_max", <<0, "=== ARMOR ===", -3>>>>,
    <<"hit_dice", <<0, "=== ARMOR ===", -1>>>>,
    <<"proficiency_bonus", <<0, "=== ARMOR ===", -5>>>>,
    <<"size", <<3, "PERSONALITY TRAITS", 3>>>>,
    <<"passive_perception", <<0, "=== ARMOR ===", -11>>>>,
    <<"passive_insight", <<0, "=== ARMOR ===", -10>>>>,
    <<"passive_investigation", <<0, "=== ARMOR ===", -9>>>>,
    <<"strength", <<0, "ABILITY SAVE DC", 7>>>>,
    <<"strength_mod", <<0, "ABILITY SAVE DC", 8>>>>,
    <<"dexterity", <<0, "ABILITY SAVE DC", 9>>>>,
    <<"dexterity_mod", <<0, "ABILITY SAVE DC", 10>>>>,
    <<"constitution", <<0, "ABILITY SAVE DC", 11>>>>,
    <<"constitution_mod", <<0, "ABILITY SAVE DC", 12>>>>,
    <<"intelligence", <<0, "ABILITY SAVE DC", 13>>>>,
    <<"intelligence_mod", <<0, "ABILITY SAVE DC", 14>>>>,
    <<"wisdom", <<0, "ABILITY SAVE DC", 15>>>>,
    <<"wisdom_mod", <<0, "ABILITY SAVE DC", 16>>>>,
    <<"charisma", <<0, "ABILITY SAVE DC", 17>>>>,
    <<"charisma_mod", <<0, "ABILITY SAVE DC", 18>>>>,
    <<"strength_saving_throw", <<0, "ABILITY SAVE DC", 19>>>>,
    <<"dexterity_saving_throw", None>>,
    <<"constitution_saving_throw", None>>,
    <<"intelligence_saving_throw", None>>,
    <<"wisdom_saving_throw", None>>,
    <<"charisma_saving_throw", None>>,
    <<"strength_proficiency", None>>,
    <<"dexterity_proficiency", None>>,
    <<"constitution_proficiency", None>>,
    <<"intelligence_proficiency", None>>,
    <<"wisdom_proficiency", None>>,
    <<"charisma_proficiency", None>>,
    <<"acrobatics_proficiency", None>>,
    <<"animal_handling_proficiency", None>>,
    <<"arcana_proficiency", None>>,
    <<"athletics_proficiency", None>>,
    <<"deception_proficiency", None>>,
    <<"history_proficiency", None>>,
    <<"insight_proficiency", None>>,
    <<"intimidation_proficiency", None>>,
    <<"investigation_proficiency", None>>,
    <<"medicine_proficiency", None>>,
    <<"nature_proficiency", None>>,
    <<"perception_proficiency", None>>,
    <<"performance_proficiency", None>>,
    <<"persuasion_proficiency", None>>,
    <<"religion_proficiency", None>>,
    <<"sleight_of_hand_proficiency", None>>,
    <<"stealth_proficiency", None>>,
    <<"survival_proficiency", None>>,
    <<"acrobatics_bonus", None>>,
    <<"animal_handling_bonus", None>>,
    <<"arcana_bonus", None>>,
    <<"athletics_bonus", None>>,
    <<"deception_bonus", None>>,
    <<"history_bonus", None>>,
    <<"insight_bonus", None>>,
    <<"intimidation_bonus", None>>,
    <<"investigation_bonus", None>>,
    <<"medicine_bonus", None>>,
    <<"nature_bonus", None>>,
    <<"perception_bonus", None>>,
    <<"performance_bonus", None>>,
    <<"persuasion_bonus", None>>,
    <<"religion_bonus", None>>,
    <<"sleight_of_hand_bonus", None>>,
    <<"stealth_bonus", None>>,
    <<"survival_bonus", None>>,
    <<"acrobatics_mod", None>>,
    <<"animal_handling_mod", None>>,
    <<"arcana_mod", None>>,
    <<"athletics_mod", None>>,
    <<"deception_mod", None>>,
    <<"history_mod", None>>,
    <<"insight_mod", None>>,
    <<"intimidation_mod", None>>,
    <<"investigation_mod", None>>,
    <<"medicine_mod", None>>,
    <<"nature_mod", None>>,
    <<"perception_mod", None>>,
    <<"performance_mod", None>>,
    <<"persuasion_mod", None>>,
    <<"religion_mod", None>>,
    <<"sleight_of_hand_mod", None>>,
    <<"stealth_mod", None>>,
    <<"survival_mod", None>>
  >>

(* sheet_fields_to_sheet_cells_map, in the dict's insertion order: <<field, cell>>. *)
sheet_fields_to_sheet_cells_map ==
  <<
    <<"name", "D3">>,
    <<"background", "D9">>,
    <<"class", "V9">>,
    <<"subclass", "V13">>,
    <<"species", "D13">>,
    <<"level", "AO4">>,
    <<"xp", "AO11">>,
    <<"armor_class", "AV6">>,
    <<"initiative", "AN27">>,
    <<"speed", "BA27">>,
    <<"hit_points_max", "BP12">>,
    <<"hit_dice", "BY12">>,
    <<"proficiency_bonus", "D27">>,
    <<"size", "BN27">>,
    <<"passive_abilities", "CA27">>,
    <<"strength", "M40">>,
    <<"strength_mod", "D39">>,
    <<"dexterity", "M61">>,
    <<"dexterity_mod", "D60">>,
    <<"constitution", "M86">>,
    <<"constitution_mod", "D85">>,
    <<"intelligence", "AE29">>,
    <<"intelligence_mod", "V28">>,
    <<"wisdom", "AE58">>,
    <<"wisdom_mod", "V57">>,
    <<"charisma", "AE87">>,
    <<"charisma_mod", "V86">>,
    <<"strength_saving_throw", "F49">>,
    <<"dexterity_saving_throw", "F70">>,
    <<"constitution_saving_throw", "F95">>,
    <<"intelligence_saving_throw", "X38">>,
    <<"wisdom_saving_throw", "X67">>,
    <<"charisma_saving_throw", "X96">>,
    <<"strength_proficiency", "D49">>,
    <<"dexterity_proficiency", "D70">>,
    <<"constitution_proficiency", "D95">>,
    <<"intelligence_proficiency", "V38">>,
    <<"wisdom_proficiency", "V67">>,
    <<"charisma_proficiency", "V96">>,
    <<"acrobatics_proficiency", "D74">>,
    <<"animal_handling_proficiency", "V71">>,
    <<"arcana_proficiency", "V42">>,
    <<"athletics_proficiency", "D53">>,
    <<"deception_proficiency", "V100">>,
    <<"history_proficiency", "V44">>,
    <<"insight_proficiency", "V73">>,
    <<"intimidation_proficiency", "V102">>,
    <<"investigation_proficiency", "V46">>,
    <<"medicine_proficiency", "V75">>,
    <<"nature_proficiency", "V48">>,
    <<"perception_proficiency", "V77">>,
    <<"performance_proficiency", "BA106">>,
    <<"persuasion_proficiency", "BA127">>,
    <<"religion_proficiency", "V50">>,
    <<"sleight_of_hand_proficiency", "D76">>,
    <<"stealth_proficiency", "D78">>,
    <<"survival_proficiency", "V79">>,
    <<"acrobatics_bonus", "F74">>,
    <<"animal_handling_bonus", "X71">>,
    <<"arcana_bonus", "X42">>,
    <<"athletics_bonus", "F53">>,
    <<"deception_bonus", "X100">>,
    <<"history_bonus", "X44">>,
    <<"insight_bonus", "X73">>,
    <<"intimidation_bonus", "X102">>,
    <<"investigation_bonus", "X46">>,
    <<"medicine_bonus", "X75">>,
    <<"nature_bonus", "X48">>,
    <<"perception_bonus", "X77">>,
    <<"performance_bonus", "X104">>,
    <<"persuasion_bonus", "X106">>,
    <<"religion_bonus", "X50">>,
    <<"sleight_of_hand_bonus", "F76">>,
    <<"stealth_bonus", "F78">>,
    <<"survival_bonus", "X79">>
  >>
(***************************************************************************)
(* Strings and lists as Python treats them.                                *)
(***************************************************************************)

(* The characters str.strip() removes, among those a line can hold. *)
Whitespace == {" ", "\t", "\n", "\r", "\f"}

CharAt(s, i) == SubSeq(s, i, i)

SetMin(S) == CHOOSE x \in S : \A y \in S : x <= y

SetMax(S) == CHOOSE x \in S : \A y \in S : y <= x

(* A strip() that was left out. *)
NoStrip(s) == s

(* str.strip(): the text between the first and the last non-whitespace character. *)
Strip(s) ==
  LET keep == {i \in 1..Len(s) : CharAt(s, i) \notin Whitespace}
  IN  IF keep = {} THEN "" ELSE SubSeq(s, SetMin(keep), SetMax(keep))

(* "target in line": substring containment, character for character. *)
Contains(target, line) ==
  \E i \in 1..(Len(line) - Len(target) + 1) : SubSeq(line, i, i + Len(target) - 1) = target

(* A start test that knows the two signs only. *)
StartsWithSign(line) == Len(line) >= 1 /\ CharAt(line, 1) \in {"+", "-"}

(* line.startswith(("+", "-", "P")) *)
StartsWithSkillMark(line) == Len(line) >= 1 /\ CharAt(line, 1) \in {"+", "-", "P"}

(* str.split(" "): cut at every single space. *)
RECURSIVE SplitSpace(_)
SplitSpace(s) ==
  LET sp == {i \in 1..Len(s) : CharAt(s, i) = " "}
  IN  IF sp = {} THEN <<s>>
      ELSE <<SubSeq(s, 1, SetMin(sp) - 1)>> \o SplitSpace(SubSeq(s, SetMin(sp) + 1, Len(s)))

(* A list subscript list[i]: in range for -len <= i < len, negative i counting
   from the end; anything else raises IndexError. *)
InRange(list, i) == -Len(list) <= i /\ i < Len(list)

Item(list, i) == IF i >= 0 THEN list[i + 1] ELSE list[Len(list) + i + 1]

(* dict[key] = value *)
Put(d, k, v) == [x \in (DOMAIN d) \cup {k} |-> IF x = k THEN v ELSE d[x]]

RECURSIVE PutAll(_, _, _)
PutAll(d, keys, v) ==
  IF keys = <<>> THEN d ELSE PutAll(Put(d, Head(keys), v), Tail(keys), v)

(***************************************************************************)
(* find_index_of_string_in_character_data and find_anchor_points           *)
(***************************************************************************)

(* The inner loop: the first line of the page, from line_index on, holding target. *)
RECURSIVE FindInPage(_, _, _)
FindInPage(target, page, line_index) ==
  IF line_index >= Len(page) THEN None
  ELSE IF Contains(target, Item(page, line_index)) THEN <<line_index>>
  ELSE FindInPage(target, page, line_index + 1)

RECURSIVE FindFromPage(_, _, _)
FindFromPage(target, data, page_index) ==
  IF page_index >= Len(data) THEN None
  ELSE LET hit == FindInPage(target, Item(data, page_index), 0)
       IN  IF hit # None THEN <<page_index, hit[1]>>
           ELSE FindFromPage(target, data, page_index + 1)

(* A scan that takes the pages from the last to the first. *)
RECURSIVE FindDownFromPage(_, _, _)
FindDownFromPage(target, data, page_index) ==
  IF page_index < 0 THEN None
  ELSE LET hit == FindInPage(target, Item(data, page_index), 0)
       IN  IF hit # None THEN <<page_index, hit[1]>>
           ELSE FindDownFromPage(target, data, page_index - 1)

find_index_pages_descending(target, data) == FindDownFromPage(target, data, Len(data) - 1)

(* A lookup that answers the top of the document for a string it did not find. *)
find_index_or_origin(target, data) ==
  IF FindFromPage(target, data, 0) = None THEN <<0, 0>> ELSE FindFromPage(target, data, 0)

find_index_of_string_in_character_data(target, data) == FindFromPage(target, data, 0)

AnchorSet == {AnchorKeys[i] : i \in DOMAIN AnchorKeys}

find_anchor_points(data) ==
  [a \in AnchorSet |-> find_index_of_string_in_character_data(a, data)]

(***************************************************************************)
(* Rosters                                                                 *)
(***************************************************************************)

(* parse_ability_saves: abilities *)
Abilities ==
  <<"strength", "dexterity", "constitution", "intelligence", "wisdom", "charisma">>

(* parse_skill_saves: skills *)
SkillRoster ==
  <<"acrobatics", "animal_handling", "arcana", "athletics", "deception", "history",
    "insight", "intimidation", "investigation", "medicine", "nature", "perception",
    "performance", "persuasion", "religion", "sleight_of_hand", "stealth", "survival">>

(* The proficiency glyph of parse_ability_saves, U+2022 (a bullet) in the program;
   the module's strings are ASCII, so one ASCII character stands for it. *)
Bullet == "*"

RECURSIVE KeysOf(_, _)
KeysOf(names, suffix) ==
  IF names = <<>> THEN <<>> ELSE <<Head(names) \o suffix>> \o KeysOf(Tail(names), suffix)

(***************************************************************************)
(* Documents: what load_character_data can return.  A family of exports    *)
(* laid out as the field table expects, and of damaged variants of them.   *)
(***************************************************************************)

MaxPrefix == 1   \* lines before the armor block
MaxNoise == 2    \* header lines between "Resistances" and the first skill line
MaxPMarks == 2   \* proficiency lines a skill block may carry
MaxCut == 3      \* lines missing from the end of page 0

Orders == {"bonus_first", "bonus_last"}

ClassTexts ==
  {"Fighter 5", "Fighter\t5", "Fighter  5", "Wizard", "Fighter 5 / Wizard 3", " Rogue 11 "}

DefaultClass == "Fighter 5"

DefaultMarks == {1, 5}

RECURSIVE Repeat(_, _)
Repeat(line, n) == IF n <= 0 THEN <<>> ELSE <<line>> \o Repeat(line, n - 1)

(* The eleven lines above the armor header, then the header. *)
ArmorBlock ==
  <<" 14", "12 ", "11", "SENSES", "+2", "15", "+3", "30 ft.", " 27 ", "HIT DICE", "3d10",
    "=== ARMOR ===">>

(* The ability-save header and the eighteen lines below it. *)
AsdBlock(cls) ==
  <<"ABILITY SAVE DC", " Aria ", cls, "PLAYER NAME", "Elf", "Sage", "900",
    "10", "+0", "14", "+2", "12", "+1", "8", "-1", "13", "+1", "16", "+3">>

AbilityValue == <<"+0", " +4", "+1", "-1 ", "+3", "+6">>

RECURSIVE AbilityLines(_, _)
AbilityLines(marks, i) ==
  IF i > Len(Abilities) THEN <<>>
  ELSE (IF i \in marks THEN <<" " \o Bullet>> ELSE <<>>)
       \o <<AbilityValue[i]>> \o AbilityLines(marks, i + 1)

SkillBonus(k) == (IF k % 3 = 0 THEN "-" ELSE "+") \o ToString(k)

SkillMod(k) == ToString(10 + k)

PCount(k, pm) == k % (pm + 1)

SkillBlock(k, order, pm) ==
  Repeat("P", PCount(k, pm))
  \o (IF order = "bonus_first" THEN <<SkillBonus(k), SkillMod(k)>>
      ELSE <<SkillMod(k), SkillBonus(k)>>)

RECURSIVE SkillLines(_, _, _)
SkillLines(k, order, pm) ==
  IF k > Len(SkillRoster) THEN <<>>
  ELSE SkillBlock(k, order, pm) \o SkillLines(k + 1, order, pm)

Page0(pre, cls, marks, noise, order, pm, cut) ==
  LET full == Repeat("CHARACTER SHEET", pre) \o ArmorBlock \o AsdBlock(cls)
              \o AbilityLines(marks, 1) \o <<"Resistances">>
              \o Repeat("SKILLS", noise) \o SkillLines(1, order, pm)
  IN  SubSeq(full, 1, Len(full) - cut)

Page1 == <<"FEATURES & TRAITS", "Darkvision", "Second Wind">>

Page2 == <<"EQUIPMENT", "Longsword">>

Page3 == <<"Age 120", "PERSONALITY TRAITS", "I am curious", "IDEALS", " Medium ", "BONDS">>

Doc(page0) == <<page0, Page1, Page2, Page3>>

DefaultPage0 == Page0(0, DefaultClass, DefaultMarks, 1, "bonus_first", 1, 0)

DeleteAt(page, i) == SubSeq(page, 1, i - 1) \o SubSeq(page, i + 1, Len(page))

InsertAt(page, i, line) == SubSeq(page, 1, i - 1) \o <<line>> \o SubSeq(page, i, Len(page))

ReplaceAt(page, i, line) == [page EXCEPT ![i] = line]

EditTexts ==
  {Bullet, "", "  ", "P", "+9", " -4", "7", "Resistances", "=== ARMOR ===", "ABILITY SAVE DC",
   "ability save dc"}

AnchorVariants ==
  {"ability save dc", "=== armor ===", "resistances", "Damage Resistances: fire",
   "Ability Save DC", "none"}

(* Every subset of the abilities marked proficient. *)
DocsMarks ==
  {Doc(Page0(0, DefaultClass, m, 1, "bonus_first", 1, 0)) : m \in SUBSET (1..Len(Abilities))}

(* Skill sections: header lines, block order, proficiency lines, a short page. *)
DocsSkills ==
  {Doc(Page0(0, DefaultClass, DefaultMarks, x[1], x[2], x[3], x[4])) :
     x \in (0..MaxNoise) \X Orders \X (0..MaxPMarks) \X (0..MaxCut)}

DocsClass ==
  {Doc(Page0(x[1], x[2], DefaultMarks, 1, "bonus_last", 0, 0)) :
     x \in (0..MaxPrefix) \X ClassTexts}

(* One line of page 0 removed, added or rewritten. *)
DocsEdit ==
  {Doc(DeleteAt(DefaultPage0, i)) : i \in 1..Len(DefaultPage0)}
  \cup {Doc(InsertAt(DefaultPage0, x[1], x[2])) :
          x \in (1..(Len(DefaultPage0) + 1)) \X EditTexts}
  \cup {Doc(ReplaceAt(DefaultPage0, x[1], x[2])) :
          x \in {i \in 1..Len(DefaultPage0) : DefaultPage0[i] \in AnchorSet} \X AnchorVariants}

(* Fewer pages, other last pages, and anchors that first occur on another page. *)
DocsPages ==
  {SubSeq(Doc(DefaultPage0), 1, n) : n \in 0..4}
  \cup {<<DefaultPage0, Page1, Page2, p3>> :
          p3 \in {<<"PERSONALITY TRAITS">>, <<"Age", "IDEALS">>, <<>>,
                  <<"a", "b", "My PERSONALITY TRAITS are", "c", "d", "Small ", "e">>,
                  <<"PERSONALITY TRAITS", "PERSONALITY TRAITS", "x", "Tiny", "Huge">>}}
  \cup {<<ReplaceAt(DefaultPage0, x[1], "none"), InsertAt(Page1, x[2], DefaultPage0[x[1]]),
          Page2, Page3>> :
          x \in {i \in 1..Len(DefaultPage0) : DefaultPage0[i] \in AnchorSet} \X (1..4)}
  \cup {<<x[1], InsertAt(Page1, x[2], "PERSONALITY TRAITS"), Page2, Page3>> :
          x \in {DefaultPage0, ReplaceAt(DefaultPage0, Len(ArmorBlock) + 1, "ability save dc")} \X (1..4)}
  \cup {Doc(SubSeq(DefaultPage0, 1, n)) : n \in 10..(Len(ArmorBlock) + Len(AsdBlock("")) + 12)}

(* The well-formed page 0 with some of its anchor lines blanked, and a second
   page that carries those anchors at the same line indexes (and, optionally,
   "PERSONALITY TRAITS" at the line index it has on the fourth page). *)
Shadowed(anchors) ==
  [i \in 1..Len(DefaultPage0) |->
     IF DefaultPage0[i] \in anchors THEN "none" ELSE DefaultPage0[i]]

ShadowPage(anchors, traits) ==
  [i \in 1..Len(DefaultPage0) |->
     IF DefaultPage0[i] \in anchors THEN DefaultPage0[i]
     ELSE IF traits /\ i = 2 THEN "PERSONALITY TRAITS"
     ELSE "filler"]

DocsShadow ==
  {<<Shadowed(x[1]), ShadowPage(x[1], x[2]), Page2, Page3>> :
     x \in (SUBSET (AnchorSet \ {"PERSONALITY TRAITS"})) \X BOOLEAN}

Documents ==
  DocsMarks \cup DocsSkills \cup DocsClass \cup DocsEdit \cup DocsPages \cup DocsShadow

(***************************************************************************)
(* map_dnd_beyond_fields                                                   *)
(***************************************************************************)

(* absolute_index = anchor_points_map[anchor][1] + relative_index *)
AbsoluteIndex(anchor_value, relative_index) == anchor_value[2] + relative_index

(* A page choice that follows the anchor to the page it was found on. *)
SourcePageOfAnchor(ix, anchor_value) == anchor_value[1]

(* "dnd_beyond_data[ix[0]]": the page read is the one the field's entry names;
   of the anchor's position only the line index is used. *)
SourcePage(ix, anchor_value) == ix[1]

(* One pass of the loop body for the entry <<key, ix>>; a result is the record
   built so far and the exception raised, if any. *)
MapField(entry, anchors, data, acc) ==
  LET key == entry[1]
      ix  == entry[2]
  IN  IF ix = None THEN [data |-> acc, error |-> NoError]
      ELSE IF anchors[ix[2]] = None
        THEN [data |-> acc, error |-> Raise("map", "TypeError", key)]
      ELSE LET absolute_index == AbsoluteIndex(anchors[ix[2]], ix[3])
               page == SourcePage(ix, anchors[ix[2]])
           IN  IF ~InRange(data, page)
                 THEN [data |-> acc, error |-> Raise("map", "IndexError", key)]
               ELSE IF ~InRange(Item(data, page), absolute_index)
                 THEN [data |-> acc, error |-> Raise("map", "IndexError", key)]
               ELSE [data  |-> Put(acc, key, Strip(Item(Item(data, page), absolute_index))),
                     error |-> NoError]

RECURSIVE MapFields(_, _, _, _)
MapFields(entries, anchors, data, acc) ==
  IF entries = <<>> THEN [data |-> acc, error |-> NoError]
  ELSE LET r == MapField(Head(entries), anchors, data, acc)
       IN  IF r.error # NoError THEN r
           ELSE MapFields(Tail(entries), anchors, data, r.data)

EmptyDict == [x \in {} |-> ""]

map_dnd_beyond_fields(data, anchors) ==
  MapFields(character_data_to_sheet_fields_map, anchors, data, EmptyDict)

(***************************************************************************)
(* cleanup_special_cases                                                   *)
(***************************************************************************)

(* str(mapped_data.get(key)) inside the f-string: a missing key formats as None. *)
Format(d, key) == IF key \in DOMAIN d THEN d[key] ELSE "None"

(* mapped_data.get("class").split(" ")[0] *)
FirstToken(text) == SplitSpace(text)[1]

(* mapped_data.get("level").split(" ")[-1] *)
LastToken(text) == SplitSpace(text)[Len(SplitSpace(text))]

PassiveAbilities(d) ==
  "PER:" \o Format(d, "passive_perception") \o ", INS:" \o Format(d, "passive_insight")
  \o ", INV:" \o Format(d, "passive_investigation")

cleanup_special_cases(d) ==
  LET d1 == Put(d, "subclass", "")
  IN  IF "class" \notin DOMAIN d1
        THEN [data |-> d1, error |-> Raise("cleanup", "AttributeError", "class")]
      ELSE LET d2 == Put(d1, "class", FirstToken(d1["class"]))
           IN  IF "level" \notin DOMAIN d2
                 THEN [data |-> d2, error |-> Raise("cleanup", "AttributeError", "level")]
               ELSE LET d3 == Put(d2, "level", LastToken(d2["level"]))
                    IN  [data  |-> Put(d3, "passive_abilities", PassiveAbilities(d3)),
                         error |-> NoError]

(***************************************************************************)
(* parse_ability_saves                                                     *)
(***************************************************************************)

FieldSpec(key) ==
  LET i == CHOOSE j \in DOMAIN character_data_to_sheet_fields_map :
             character_data_to_sheet_fields_map[j][1] = key
  IN  character_data_to_sheet_fields_map[i][2]

(* The line read without its strip(). *)
AbilityLineRaw(data, ability_index) == Item(Item(data, 0), ability_index)

(* character_data[0][ability_index].strip() *)
AbilityLine(data, ability_index) == Strip(Item(Item(data, 0), ability_index))

(* The body of "for ability_index in range(ability_saves_start, ability_saves_end)",
   from ability_index on; abilities is the roster left, current_ability the claimed
   ability or NoSkill. *)
RECURSIVE AbilityLoop(_, _, _, _, _, _)
AbilityLoop(ability_index, ability_saves_end, data, abilities, current_ability, acc) ==
  IF ability_index >= ability_saves_end THEN [data |-> acc, error |-> NoError]
  ELSE IF ~InRange(data, 0) \/ ~InRange(Item(data, 0), ability_index)
    THEN [data |-> acc, error |-> Raise("abilities", "IndexError", current_ability)]
  ELSE LET line == AbilityLine(data, ability_index)
       IN  IF line = Bullet
             THEN IF abilities = <<>>
                    THEN [data |-> acc, error |-> Raise("abilities", "IndexError", "pop")]
                  ELSE AbilityLoop(ability_index + 1, ability_saves_end, data,
                                   Tail(abilities), Head(abilities),
                                   Put(acc, Head(abilities) \o "_proficiency", TRUE))
           ELSE IF current_ability = NoSkill /\ abilities = <<>>
             THEN [data |-> acc, error |-> Raise("abilities", "IndexError", "pop")]
           ELSE LET claimed == IF current_ability = NoSkill THEN Head(abilities)
                               ELSE current_ability
                    rest    == IF current_ability = NoSkill THEN Tail(abilities)
                               ELSE abilities
                IN  AbilityLoop(ability_index + 1, ability_saves_end, data, rest, NoSkill,
                                Put(acc, claimed \o "_saving_throw", line))

parse_ability_saves(data, d, anchors) ==
  LET spec == FieldSpec("strength_saving_throw")
  IN  IF anchors[spec[2]] = None
        THEN [data |-> d, error |-> Raise("abilities", "TypeError", spec[2])]
      ELSE LET ability_saves_start == AbsoluteIndex(anchors[spec[2]], spec[3])
               flagged == PutAll(d, KeysOf(Abilities, "_proficiency"), FALSE)
           IN  IF anchors["Resistances"] = None
                 THEN [data |-> flagged, error |-> Raise("abilities", "TypeError", "Resistances")]
               ELSE AbilityLoop(ability_saves_start, anchors["Resistances"][2], data,
                                Abilities, NoSkill, flagged)

(***************************************************************************)
(* write_to_sheet                                                          *)
(***************************************************************************)

(* A body with an instruction for every cell of the table, whether or not the
   record holds the field. *)
RECURSIVE BodyOfEveryCell(_, _)
BodyOfEveryCell(cells, d) ==
  IF cells = <<>> THEN <<>>
  ELSE <<[range |-> Head(cells)[2],
          values |-> << <<IF Head(cells)[1] \in DOMAIN d THEN d[Head(cells)[1]] ELSE "None">> >>]>>
       \o BodyOfEveryCell(Tail(cells), d)

RECURSIVE Body(_, _)
Body(cells, d) ==
  IF cells = <<>> THEN <<>>
  ELSE (IF Head(cells)[1] \in DOMAIN d
          THEN <<[range |-> Head(cells)[2], values |-> << <<d[Head(cells)[1]]>> >>]>>
        ELSE <<>>)
       \o Body(Tail(cells), d)

(***************************************************************************)
(* main(): the pipeline                                                    *)
(***************************************************************************)

(* No earlier run: the process has just started. *)
NoRun == [done |-> FALSE, error |-> NoError, payload |-> <<>>]

Init ==
  /\ character_data \in Documents
  /\ anchor_points_map = [a \in AnchorSet |-> <<None, None>>]
  /\ mapped_data = EmptyDict
  /\ pc = "start"
  /\ error = NoError
  /\ skills = <<>>
  /\ current_skill = NoSkill
  /\ skill_saves_start = 0
  /\ current_position = 0
  /\ batch_updates = <<>>
  /\ first_run = NoRun

(* How a stage that returned [data, error] ends: at the next position, or aborted. *)
Finish(r, next) ==
  /\ mapped_data' = r.data
  /\ error' = r.error
  /\ pc' = IF r.error = NoError THEN next ELSE "failed"

FindAnchorPoints ==
  /\ pc = "start"
  /\ anchor_points_map' = find_anchor_points(character_data)
  /\ pc' = "located"
  /\ UNCHANGED <<character_data, mapped_data, error, skills, current_skill,
                 skill_saves_start, current_position, batch_updates, first_run>>

MapDndBeyondFields ==
  /\ pc = "located"
  /\ Finish(map_dnd_beyond_fields(character_data, anchor_points_map), "mapped")
  /\ UNCHANGED <<character_data, anchor_points_map, skills, current_skill,
                 skill_saves_start, current_position, batch_updates, first_run>>

CleanupSpecialCases ==
  /\ pc = "mapped"
  /\ Finish(cleanup_special_cases(mapped_data), "cleaned")
  /\ UNCHANGED <<character_data, anchor_points_map, skills, current_skill,
                 skill_saves_start, current_position, batch_updates, first_run>>

ParseAbilitySaves ==
  /\ pc = "cleaned"
  /\ Finish(parse_ability_saves(character_data, mapped_data, anchor_points_map), "abilities")
  /\ UNCHANGED <<character_data, anchor_points_map, skills, current_skill,
                 skill_saves_start, current_position, batch_updates, first_run>>

(* A skill parser whose roster list is shared by the runs of a process: a later
   run finds what the earlier one left of it. *)
ParseSkillSavesBeginSharedRoster ==
  /\ pc = "abilities"
  /\ skills' = IF first_run.done THEN skills ELSE SkillRoster
  /\ IF anchor_points_map["Resistances"] = None
       THEN /\ pc' = "failed"
            /\ error' = Raise("skills", "TypeError", "Resistances")
            /\ UNCHANGED <<mapped_data, skill_saves_start>>
       ELSE /\ pc' = "skill_scan"
            /\ mapped_data' = PutAll(mapped_data, KeysOf(SkillRoster, "_proficiency"), FALSE)
            /\ skill_saves_start' = anchor_points_map["Resistances"][2]
            /\ UNCHANGED error
  /\ UNCHANGED <<character_data, anchor_points_map, current_skill, current_position,
                 batch_updates, first_run>>

(* parse_skill_saves up to its first loop: the roster, the anchor, the default flags. *)
ParseSkillSavesBegin ==
  /\ pc = "abilities"
  /\ skills' = SkillRoster
  /\ IF anchor_points_map["Resistances"] = None
       THEN /\ pc' = "failed"
            /\ error' = Raise("skills", "TypeError", "Resistances")
            /\ UNCHANGED <<mapped_data, skill_saves_start>>
       ELSE /\ pc' = "skill_scan"
            /\ mapped_data' = PutAll(mapped_data, KeysOf(SkillRoster, "_proficiency"), FALSE)
            /\ skill_saves_start' = anchor_points_map["Resistances"][2]
            /\ UNCHANGED error
  /\ UNCHANGED <<character_data, anchor_points_map, current_skill, current_position,
                 batch_updates, first_run>>

(* One pass of the first loop: test the line at skill_saves_start. *)
ParseSkillSavesScan ==
  /\ pc = "skill_scan"
  /\ IF ~InRange(character_data, 0) \/ ~InRange(Item(character_data, 0), skill_saves_start)
       THEN /\ pc' = "failed"
            /\ error' = Raise("skills", "IndexError", "scan")
            /\ UNCHANGED <<skill_saves_start, current_position, current_skill>>
       ELSE IF StartsWithSkillMark(Strip(Item(Item(character_data, 0), skill_saves_start)))
         THEN /\ pc' = IF skills = <<>> THEN "skills" ELSE "skill_loop"
              /\ current_position' = skill_saves_start
              /\ current_skill' = NoSkill
              /\ UNCHANGED <<skill_saves_start, error>>
         ELSE /\ skill_saves_start' = skill_saves_start + 1
              /\ UNCHANGED <<pc, error, current_position, current_skill>>
  /\ UNCHANGED <<character_data, anchor_points_map, mapped_data, skills, batch_updates, first_run>>

(* The skill a pass of "while skills" works on, and the roster list it leaves:
   "if not current_skill: current_skill = skills.pop(0)". *)
ClaimedSkill == IF current_skill = NoSkill THEN Head(skills) ELSE current_skill

RosterLeft == IF current_skill = NoSkill THEN Tail(skills) ELSE skills

(* The read position is off page 0: character_data[0][current_position] raises. *)
OffPage == ~InRange(character_data, 0) \/ ~InRange(Item(character_data, 0), current_position)

(* character_data[0][current_position], or line[0] on an empty line, raises IndexError. *)
SkillLineRaises ==
  /\ pc' = "failed"
  /\ error' = Raise("skills", "IndexError", ClaimedSkill)
  /\ current_skill' = ClaimedSkill
  /\ UNCHANGED <<mapped_data, current_position>>

(* "match line[0]": file the line under the claimed skill, advance the position, and
   let the loop test that follows decide whether the function returns. *)
SkillLineFiled(line) ==
  /\ mapped_data' =
       IF CharAt(line, 1) = "P"
         THEN Put(mapped_data, ClaimedSkill \o "_proficiency", TRUE)
       ELSE IF CharAt(line, 1) \in {"+", "-"}
         THEN Put(mapped_data, ClaimedSkill \o "_bonus", line)
       ELSE Put(mapped_data, ClaimedSkill \o "_mod", line)
  /\ current_skill' = IF CharAt(line, 1) \in {"+", "-"} THEN NoSkill ELSE ClaimedSkill
  /\ current_position' = current_position + 1
  /\ pc' = IF RosterLeft = <<>> THEN "skills" ELSE "skill_loop"
  /\ UNCHANGED error

(* A second loop that stops at the end of the page instead of reading past it. *)
ParseSkillSavesLineWhileOnPage ==
  /\ pc = "skill_loop"
  /\ skills # <<>>
  /\ skills' = RosterLeft
  /\ IF OffPage
       THEN /\ pc' = "skills"
            /\ current_skill' = ClaimedSkill
            /\ UNCHANGED <<mapped_data, current_position, error>>
       ELSE IF Strip(Item(Item(character_data, 0), current_position)) = ""
         THEN SkillLineRaises
         ELSE SkillLineFiled(Strip(Item(Item(character_data, 0), current_position)))
  /\ UNCHANGED <<character_data, anchor_points_map, skill_saves_start, batch_updates, first_run>>

(* One pass of "while skills". *)
ParseSkillSavesLine ==
  /\ pc = "skill_loop"
  /\ skills # <<>>
  /\ skills' = RosterLeft
  /\ IF OffPage THEN SkillLineRaises
     ELSE IF Strip(Item(Item(character_data, 0), current_position)) = ""
       THEN SkillLineRaises
       ELSE SkillLineFiled(Strip(Item(Item(character_data, 0), current_position)))
  /\ UNCHANGED <<character_data, anchor_points_map, skill_saves_start, batch_updates, first_run>>

(* A write that sends every cell in a request of its own. *)
WriteToSheetPerCell ==
  /\ pc = "skills"
  /\ \E outcome \in {"ok", "open_fails", "update_fails"} :
       LET body == Body(sheet_fields_to_sheet_cells_map, mapped_data)
       IN  /\ batch_updates' =
                IF outcome = "open_fails" \/ body = <<>> THEN batch_updates
                ELSE batch_updates \o [i \in 1..Len(body) |-> <<body[i]>>]
           /\ pc' = IF outcome = "ok" \/ (outcome = "update_fails" /\ body = <<>>)
                      THEN "written" ELSE "failed"
           /\ error' = IF outcome = "ok" \/ (outcome = "update_fails" /\ body = <<>>)
                         THEN NoError ELSE Raise("write", "ExternalServiceError", outcome)
  /\ UNCHANGED <<character_data, anchor_points_map, mapped_data, skills, current_skill,
                 skill_saves_start, current_position, first_run>>

(* write_to_sheet: the sheet is opened (which the service may refuse), the body is
   collected, and a non-empty body is sent in one batch_update call (which may fail
   after the request went out). *)
WriteToSheet ==
  /\ pc = "skills"
  /\ \E outcome \in {"ok", "open_fails", "update_fails"} :
       LET body == Body(sheet_fields_to_sheet_cells_map, mapped_data)
       IN  /\ batch_updates' =
                IF outcome = "open_fails" \/ body = <<>> THEN batch_updates
                ELSE Append(batch_updates, body)
           /\ pc' = IF outcome = "ok" \/ (outcome = "update_fails" /\ body = <<>>)
                      THEN "written" ELSE "failed"
           /\ error' = IF outcome = "ok" \/ (outcome = "update_fails" /\ body = <<>>)
                         THEN NoError ELSE Raise("write", "ExternalServiceError", outcome)
  /\ UNCHANGED <<character_data, anchor_points_map, mapped_data, skills, current_skill,
                 skill_saves_start, current_position, first_run>>

Next ==
  \/ FindAnchorPoints
  \/ MapDndBeyondFields
  \/ CleanupSpecialCases
  \/ ParseAbilitySaves
  \/ ParseSkillSavesBegin
  \/ ParseSkillSavesScan
  \/ ParseSkillSavesLine
  \/ WriteToSheet

Spec == Init /\ [][Next]_vars

(* What a run produced: the exception of the stage that aborted it, or the body
   built for ws.batch_update. *)
Outcome ==
  IF pc = "failed" /\ error.stage # "write"
    THEN [done |-> TRUE, error |-> error, payload |-> <<>>]
  ELSE [done |-> TRUE, error |-> NoError,
        payload |-> Body(sheet_fields_to_sheet_cells_map, mapped_data)]

(* main() is run a second time in the same process on the same document: the
   module-level anchor table is as the first run left it, everything else that
   main() and the stages hold is created anew. *)
RunAgain ==
  /\ pc \in {"written", "failed"}
  /\ ~first_run.done
  /\ first_run' = Outcome
  /\ pc' = "start"
  /\ mapped_data' = EmptyDict
  /\ error' = NoError
  /\ current_skill' = NoSkill
  /\ skill_saves_start' = 0
  /\ current_position' = 0
  /\ batch_updates' = <<>>
  /\ UNCHANGED <<character_data, anchor_points_map, skills>>

NextTwice == Next \/ RunAgain

SpecTwice == Init /\ [][NextTwice]_vars

(***************************************************************************)
(* Properties                                                              *)
(***************************************************************************)

(* The positions <<page_index, line_index>> of the document whose line holds the
   anchor text somewhere inside it, character for character. *)
Occurrences(a) ==
  {x \in UNION {{<<p, l>> : l \in 0..(Len(character_data[p + 1]) - 1)} :
                  p \in 0..(Len(character_data) - 1)} :
     LET line == character_data[x[1] + 1][x[2] + 1]
     IN  \E k \in 0..Len(line) :
           k + Len(a) <= Len(line) /\ SubSeq(line, k + 1, k + Len(a)) = a}

Before(x, y) == x[1] < y[1] \/ (x[1] = y[1] /\ x[2] <= y[2])

(* C1: once the anchors are located, each anchor of the table is bound to the
   position of the first line, pages in ascending order and lines in ascending
   order within a page, that contains it as a case-sensitive substring, and to
   None when no line contains it. *)
C1_AnchorIsFirstOccurrence ==
  pc = "located" =>
    \A a \in AnchorSet :
      IF Occurrences(a) = {} THEN anchor_points_map[a] = None
      ELSE /\ anchor_points_map[a] \in Occurrences(a)
           /\ \A o \in Occurrences(a) : Before(anchor_points_map[a], o)

(* An anchor that occurs on two pages is bound to its earlier occurrence while
   another anchor, present only in another case, is bound to None. *)
C1_Witness ==
  /\ pc = "located"
  /\ \E x, y \in Occurrences("PERSONALITY TRAITS") : x[1] # y[1]
  /\ anchor_points_map["PERSONALITY TRAITS"][1] = 1
  /\ anchor_points_map["ABILITY SAVE DC"] = None

(* The fields the mapper resolves: the table entries whose spec is present. *)
SpecEntries ==
  {character_data_to_sheet_fields_map[i] : i \in
     {j \in DOMAIN character_data_to_sheet_fields_map :
        character_data_to_sheet_fields_map[j][2] # None}}

MapAnchors == {e[2][2] : e \in SpecEntries}

MapHasRun == pc = "mapped" \/ (pc = "failed" /\ error.stage = "map")

(* The entry's anchor is resolved and its page exists. *)
Resolvable(e) ==
  /\ anchor_points_map[e[2][2]] # None
  /\ e[2][1] < Len(character_data)

TargetIndex(e) == anchor_points_map[e[2][2]][2] + e[2][3]

TargetPage(e) == character_data[e[2][1] + 1]

OutOfBounds(e) ==
  Resolvable(e) /\ (TargetIndex(e) < 0 \/ TargetIndex(e) >= Len(TargetPage(e)))

InBounds(e) ==
  Resolvable(e) /\ 0 <= TargetIndex(e) /\ TargetIndex(e) < Len(TargetPage(e))

(* C2: when a present field's anchor line plus relative offset falls below 0 or
   at/after the page's line count, the mapper fails and the field gets no value. *)
C2_OutOfBoundsFails ==
  MapHasRun =>
    \A e \in SpecEntries :
      OutOfBounds(e) => pc = "failed" /\ e[1] \notin DOMAIN mapped_data

(* t is line without its leading and trailing whitespace. *)
IsTrimOf(t, line) ==
  \E i \in 1..(Len(line) + 1) : \E j \in (i - 1)..Len(line) :
    /\ t = SubSeq(line, i, j)
    /\ \A k \in 1..(i - 1) : CharAt(line, k) \in Whitespace
    /\ \A k \in (j + 1)..Len(line) : CharAt(line, k) \in Whitespace
    /\ i <= j => CharAt(line, i) \notin Whitespace /\ CharAt(line, j) \notin Whitespace

(* C3: a present field whose absolute index lies within its page raises no error
   and holds exactly the trimmed text of that line of that page; a field whose
   spec is absent is left unset by the mapper. *)
C3_InBoundsFieldIsTrimmedLine ==
  MapHasRun =>
    /\ \A e \in SpecEntries :
         InBounds(e) =>
           /\ error.field # e[1]
           /\ pc = "mapped" => e[1] \in DOMAIN mapped_data
           /\ e[1] \in DOMAIN mapped_data =>
                IsTrimOf(mapped_data[e[1]], TargetPage(e)[TargetIndex(e) + 1])
    /\ \A i \in DOMAIN character_data_to_sheet_fields_map :
         character_data_to_sheet_fields_map[i][2] = None =>
           character_data_to_sheet_fields_map[i][1] \notin DOMAIN mapped_data

(* The mapper returned a record whose name was cut out of a line with whitespace
   around it, and whose size was read from the fourth page. *)
C3_Witness ==
  /\ pc = "mapped"
  /\ \E e \in SpecEntries :
       /\ e[1] = "name" /\ InBounds(e)
       /\ TargetPage(e)[TargetIndex(e) + 1] # mapped_data["name"]
  /\ mapped_data["size"] = "Medium"

AnchorOccurs(a) == Occurrences(a) # {}

(* C4: when an anchor a stage depends on occurs nowhere in the document, the
   field mapping (for its anchors) and the ability and skill parsers (for
   "Resistances") never complete, and no write is issued. *)
C4_AbsentAnchorAborts ==
  /\ pc = "mapped" => \A a \in MapAnchors : AnchorOccurs(a)
  /\ pc \in {"abilities", "skills", "written"} => \A a \in AnchorSet : AnchorOccurs(a)
  /\ batch_updates # <<>> => \A a \in AnchorSet : AnchorOccurs(a)

(* The ability parser aborted on the absent "Resistances" anchor after the mapper
   and the normalizer had completed, and nothing was written. *)
C4_Witness ==
  /\ pc = "failed"
  /\ error = Raise("abilities", "TypeError", "Resistances")
  /\ ~AnchorOccurs("Resistances")
  /\ "passive_abilities" \in DOMAIN mapped_data
  /\ batch_updates = <<>>



Page0Line(i) == character_data[1][i + 1]

(* The text of line i of page 0 without its surrounding whitespace. *)
Trimmed(i) == CHOOSE t \in {SubSeq(Page0Line(i), a, b) :
                              a \in 1..(Len(Page0Line(i)) + 1), b \in 0..Len(Page0Line(i))} :
                IsTrimOf(t, Page0Line(i))

AbilitiesHasRun == pc = "abilities" \/ (pc = "failed" /\ error.stage = "abilities")

AbilityStart ==
  anchor_points_map["ABILITY SAVE DC"][2] + FieldSpec("strength_saving_throw")[3]

AbilityEnd == anchor_points_map["Resistances"][2]

(* The lines of the ability range that are not a proficiency marker. *)
AbilityValueLines == {i \in AbilityStart..(AbilityEnd - 1) : Trimmed(i) # Bullet}

(* The range [ability_saves_start, ability_saves_end) lies on page 0 and holds,
   for each of the six abilities, an optional marker line and then one value line. *)
WellFormedAbilityRange ==
  /\ anchor_points_map["ABILITY SAVE DC"] # None
  /\ anchor_points_map["Resistances"] # None
  /\ Len(character_data) > 0
  /\ AbilityStart <= AbilityEnd
  /\ AbilityEnd <= Len(character_data[1])
  /\ Cardinality(AbilityValueLines) = Len(Abilities)
  /\ \A i \in AbilityStart..(AbilityEnd - 1) :
       i \notin AbilityValueLines => (i + 1) \in AbilityValueLines

(* The value line of the j-th ability of the roster. *)
ValueLineOf(j) ==
  CHOOSE i \in AbilityValueLines :
    Cardinality({k \in AbilityValueLines : k <= i}) = j

(* C5: on a well-formed ability range the parser returns normally, every ability's
   saving throw is the trimmed text of its own value line, and its proficiency flag
   is true exactly when a marker line precedes that value line. *)
C5_WellFormedAbilityRange ==
  (AbilitiesHasRun /\ WellFormedAbilityRange) =>
    /\ pc = "abilities"
    /\ \A j \in 1..Len(Abilities) :
         /\ mapped_data[Abilities[j] \o "_saving_throw"] = Trimmed(ValueLineOf(j))
         /\ mapped_data[Abilities[j] \o "_proficiency"] =
              (ValueLineOf(j) > AbilityStart /\ (ValueLineOf(j) - 1) \notin AbilityValueLines)

(* A seven-line range whose only marker precedes the third ability's value. *)
C5_Witness ==
  /\ pc = "abilities"
  /\ WellFormedAbilityRange
  /\ AbilityEnd - AbilityStart = 7
  /\ mapped_data["constitution_proficiency"]
  /\ ~mapped_data["strength_proficiency"]
  /\ mapped_data["constitution_saving_throw"] = "+1"

(* C6: the ability parser never returns a record in which one of the six abilities
   has no saving-throw value. *)
C6_ShortRangeFails ==
  pc = "abilities" =>
    \A j \in 1..Len(Abilities) : (Abilities[j] \o "_saving_throw") \in DOMAIN mapped_data

SkillsHasRun == pc = "skills" \/ (pc = "failed" /\ error.stage = "skills")

Page0Len == IF Len(character_data) > 0 THEN Len(character_data[1]) ELSE 0

IsMarkLine(i) == Trimmed(i) # "" /\ CharAt(Trimmed(i), 1) \in {"+", "-", "P"}

IsBonusLine(i) == Trimmed(i) # "" /\ CharAt(Trimmed(i), 1) \in {"+", "-"}

IsProfLine(i) == Trimmed(i) # "" /\ CharAt(Trimmed(i), 1) = "P"

IsModLine(i) == Trimmed(i) # "" /\ ~IsMarkLine(i)

(* The lines at or after the "Resistances" line that begin with '+', '-' or 'P'. *)
MarkLines ==
  {i \in anchor_points_map["Resistances"][2]..(Page0Len - 1) : IsMarkLine(i)}

(* The skill blocks of a stream laid out as the roster: from line pos on, for the
   skills k..18, each block is its proficiency lines and then its bonus and its
   modifier line, in the given order.  The result lists, per skill, the number of
   proficiency lines and the lines of its bonus and modifier; <<>> when the lines
   do not have that shape. *)
RECURSIVE SkillBlocks(_, _, _)
SkillBlocks(k, pos, order) ==
  IF k > Len(SkillRoster) THEN << <<>> >>
  ELSE LET profs == {n \in 0..(Page0Len - pos) :
                       \A i \in pos..(pos + n - 1) : IsProfLine(i)}
           n == CHOOSE m \in profs : \A x \in profs : x <= m
           b == IF order = "bonus_first" THEN pos + n ELSE pos + n + 1
           m == IF order = "bonus_first" THEN pos + n + 1 ELSE pos + n
       IN  IF pos + n + 1 < Page0Len /\ IsBonusLine(b) /\ IsModLine(m)
             THEN LET rest == SkillBlocks(k + 1, pos + n + 2, order)
                  IN  IF rest = <<>> THEN <<>>
                      ELSE << <<n, b, m>> >> \o rest
           ELSE <<>>

SkillsAsClaimed(blocks) ==
  \A k \in 1..Len(SkillRoster) :
    /\ mapped_data[SkillRoster[k] \o "_proficiency"] = (blocks[k][1] > 0)
    /\ (SkillRoster[k] \o "_bonus") \in DOMAIN mapped_data
    /\ mapped_data[SkillRoster[k] \o "_bonus"] = Trimmed(blocks[k][2])
    /\ (SkillRoster[k] \o "_mod") \in DOMAIN mapped_data
    /\ mapped_data[SkillRoster[k] \o "_mod"] = Trimmed(blocks[k][3])

(* C7: on a stream in which every roster skill contributes its proficiency lines,
   one bonus line and one modifier line, the skill parser returns for every skill
   its own proficiency, bonus and modifier. *)
C7_SkillRecords ==
  (SkillsHasRun /\ MarkLines # {}) =>
    \A order \in Orders :
      LET blocks == SkillBlocks(1, SetMin(MarkLines), order)
      IN  blocks # <<>> => pc = "skills" /\ SkillsAsClaimed(blocks)

(* The bonus lines at or after the start boundary that are not the last line of
   page 0: after each of them the parser reads one more line. *)
BonusLinesBeforeLast ==
  {i \in SetMin(MarkLines)..(Page0Len - 2) : IsBonusLine(i)}

(* Page 0 runs out while the roster list still holds a skill: there is no start
   boundary, or fewer lines follow it than the parser reads before its roster
   list is empty (one line after the bonus line of the last skill but one). *)
LinesExhausted ==
  \/ MarkLines = {}
  \/ Cardinality(BonusLinesBeforeLast) < Len(SkillRoster) - 1

(* C8: when the lines of page 0 are exhausted before the roster is empty the skill
   parser does not return normally, and its two loops never read past the end of
   the page, so neither of them runs forever. *)
C8_ExhaustedLinesFail ==
  /\ pc = "skills" => ~LinesExhausted
  /\ pc = "skill_scan" => skill_saves_start <= Page0Len
  /\ pc = "skill_loop" => current_position <= Page0Len

(* The page ended inside the skill section: the parser aborted with skills left. *)
C8_Witness ==
  /\ pc = "failed"
  /\ error.stage = "skills"
  /\ error.kind = "IndexError"
  /\ MarkLines # {}
  /\ LinesExhausted
  /\ skills # <<>>
  /\ current_position = Page0Len

(***************************************************************************)
(* cleanup_special_cases on its own: applied to any partial record         *)
(***************************************************************************)

(* The fields cleanup_special_cases reads. *)
NormKeys ==
  {"class", "level", "passive_perception", "passive_insight", "passive_investigation"}

FullRecord(c, l) ==
  [k \in NormKeys \cup {"name"} |->
     CASE k = "class" -> c
       [] k = "level" -> l
       [] k = "passive_perception" -> "14"
       [] k = "passive_insight" -> "12"
       [] k = "passive_investigation" -> "11"
       [] OTHER -> "Aria"]

PartialRecords ==
  {[k \in x[3] \cup {"name"} |-> FullRecord(x[1], x[2])[k]] :
     x \in ClassTexts \X ClassTexts \X (SUBSET NormKeys)}

InitCleanup ==
  /\ character_data = <<>>
  /\ anchor_points_map = [a \in AnchorSet |-> <<None, None>>]
  /\ mapped_data \in PartialRecords
  /\ pc = "mapped"
  /\ error = NoError
  /\ skills = <<>>
  /\ current_skill = NoSkill
  /\ skill_saves_start = 0
  /\ current_position = 0
  /\ batch_updates = <<>>
  /\ first_run = NoRun

NextCleanup == CleanupSpecialCases

SpecCleanup == InitCleanup /\ [][NextCleanup]_vars

(* C9: the normalizer fails whenever one of the fields it reads is missing from
   the record it is given. *)
C9_MissingFieldFails ==
  [][(pc = "mapped" /\ ~(NormKeys \subseteq DOMAIN mapped_data)) => pc' = "failed"]_vars

(* The first and the last whitespace-delimited token of a text that holds one. *)
HasToken(text) == \E i \in 1..Len(text) : CharAt(text, i) \notin Whitespace

IsToken(text, i, j) ==
  /\ 1 <= i /\ i <= j /\ j <= Len(text)
  /\ \A k \in i..j : CharAt(text, k) \notin Whitespace
  /\ i > 1 => CharAt(text, i - 1) \in Whitespace
  /\ j < Len(text) => CharAt(text, j + 1) \in Whitespace

TokenSpans(text) == {x \in (1..Len(text)) \X (1..Len(text)) : IsToken(text, x[1], x[2])}

FirstWsToken(text) ==
  LET x == CHOOSE y \in TokenSpans(text) : \A z \in TokenSpans(text) : y[1] <= z[1]
  IN  SubSeq(text, x[1], x[2])

LastWsToken(text) ==
  LET x == CHOOSE y \in TokenSpans(text) : \A z \in TokenSpans(text) : z[1] <= y[1]
  IN  SubSeq(text, x[1], x[2])

(* C10: the normalizer leaves class as the first and level as the last
   whitespace-delimited token of the raw class/level text, subclass empty, and
   passive_abilities as "PER:<p>, INS:<i>, INV:<v>" of the resolved fields. *)
C10_Normalized ==
  [][(pc = "mapped" /\ pc' = "cleaned" /\ HasToken(mapped_data["class"])
      /\ HasToken(mapped_data["level"])) =>
       /\ mapped_data'["class"] = FirstWsToken(mapped_data["class"])
       /\ mapped_data'["level"] = LastWsToken(mapped_data["level"])
       /\ mapped_data'["subclass"] = ""
       /\ mapped_data'["passive_abilities"] =
            "PER:" \o mapped_data["passive_perception"]
            \o ", INS:" \o mapped_data["passive_insight"]
            \o ", INV:" \o mapped_data["passive_investigation"]]_vars

(***************************************************************************)
(* The write                                                               *)
(***************************************************************************)

WriteHasRun == pc = "written" \/ (pc = "failed" /\ error.stage = "write")

(* C11: the batched write is issued at most once, only after every stage has
   completed; a run that a stage aborted issues none, and a run whose stages all
   succeeded issues exactly one. *)
C11_ExactlyOneWrite ==
  /\ Len(batch_updates) <= 1
  /\ batch_updates # <<>> => WriteHasRun
  /\ (pc = "failed" /\ error.stage # "write") => batch_updates = <<>>
  /\ WriteHasRun => Len(batch_updates) = 1

(* C11 as amended: as C11, but a run whose stages all succeeded issues exactly one
   request, carrying every cell update, when the worksheet could be opened, and
   none when opening it failed. *)
C11_OneWriteOnceOpened ==
  /\ Len(batch_updates) <= 1
  /\ batch_updates # <<>> => WriteHasRun
  /\ (pc = "failed" /\ error.stage # "write") => batch_updates = <<>>
  /\ WriteHasRun =>
       IF error.field = "open_fails" THEN batch_updates = <<>>
       ELSE /\ Len(batch_updates) = 1
            /\ batch_updates[1] = Body(sheet_fields_to_sheet_cells_map, mapped_data)

(* A run went through every stage and sent its one request, of many cells. *)
C11_Witness ==
  /\ pc = "written"
  /\ Len(batch_updates) = 1
  /\ Len(batch_updates[1]) > Len(SkillRoster)

CellEntries == {sheet_fields_to_sheet_cells_map[i] : i \in 1..Len(sheet_fields_to_sheet_cells_map)}

(* The instructions of a request that address the given cell. *)
Instructions(body, cell) == {j \in 1..Len(body) : body[j].range = cell}

(* C12: the request holds exactly one instruction, carrying the record's value,
   for every field that is both in the record and in the cell table, and no
   instruction for anything else. *)
C12_PayloadIsRecordOverCells ==
  batch_updates # <<>> =>
    LET body == batch_updates[1]
    IN  /\ Len(body) = Cardinality({e \in CellEntries : e[1] \in DOMAIN mapped_data})
        /\ \A e \in CellEntries :
             IF e[1] \in DOMAIN mapped_data
               THEN /\ Cardinality(Instructions(body, e[2])) = 1
                    /\ \A j \in Instructions(body, e[2]) :
                         body[j].values = << <<mapped_data[e[1]]>> >>
             ELSE Instructions(body, e[2]) = {}

(* A request was sent from a record that lacks a field of the cell table and
   holds a field the cell table does not know. *)
C12_Witness ==
  /\ batch_updates # <<>>
  /\ \E e \in CellEntries : e[1] \notin DOMAIN mapped_data
  /\ \E k \in DOMAIN mapped_data : \A e \in CellEntries : e[1] # k
  /\ Len(batch_updates[1]) > 1

(***************************************************************************)
(* The skill parser, line by line                                          *)
(***************************************************************************)

(* C14: whenever the skill parser returns normally every roster skill, survival
   included, has its bonus field, holding a line that begins with '+' or '-'. *)
C14_EverySkillHasBonus ==
  pc = "skills" =>
    \A k \in 1..Len(SkillRoster) :
      /\ (SkillRoster[k] \o "_bonus") \in DOMAIN mapped_data
      /\ CharAt(mapped_data[SkillRoster[k] \o "_bonus"], 1) \in {"+", "-"}

(* A pass of the second loop reads a line of page 0. *)
ReadsSkillLine == pc = "skill_loop" /\ skills # <<>> /\ ~OffPage

(* C15: a pass of the second loop over a line beginning with 'P' sets the current
   skill's proficiency and stays on that skill; over a line beginning with none of
   'P', '+', '-', an empty or whitespace-only line included, it sets the current
   skill's modifier to the trimmed line and stays on that skill; neither fails. *)
C15_LineTransition ==
  [][(ReadsSkillLine /\ ~IsBonusLine(current_position)) =>
       /\ pc' # "failed"
       /\ current_skill' = ClaimedSkill
       /\ IF IsProfLine(current_position)
            THEN mapped_data'[ClaimedSkill \o "_proficiency"] = TRUE
          ELSE /\ (ClaimedSkill \o "_mod") \in DOMAIN mapped_data'
               /\ mapped_data'[ClaimedSkill \o "_mod"] = Trimmed(current_position)]_vars

(***************************************************************************)
(* The record across the stages                                            *)
(***************************************************************************)

(* C16: the record only grows: a field that has been set keeps its value through
   every later step of the map, the normalization and the two parsers. *)
C16_RecordMonotonic ==
  [][\A k \in DOMAIN mapped_data :
       k \in DOMAIN mapped_data' /\ mapped_data'[k] = mapped_data[k]]_vars

(***************************************************************************)
(* The start of the skill section                                          *)
(***************************************************************************)

(* The second loop is about to make its first pass. *)
FirstSkillPass == pc = "skill_loop" /\ skills = SkillRoster

(* C17: the skill parser starts at the first line, from the line of the
   "Resistances" anchor on, whose trimmed text begins with '+', '-' or 'P'; the
   lines it skips before that change no field and take no roster entry, and the
   start line is the first line filed, under acrobatics. *)
C17_StartBoundary ==
  /\ [](FirstSkillPass =>
          /\ MarkLines # {}
          /\ current_position = SetMin(MarkLines)
          /\ current_skill = NoSkill)
  /\ [][pc = "skill_scan" =>
          /\ mapped_data' = mapped_data
          /\ skills' = skills
          /\ pc' = "skill_loop" <=>
               (skill_saves_start < Page0Len /\ IsMarkLine(skill_saves_start))]_vars
  /\ [][FirstSkillPass =>
          /\ pc' = "skill_loop"
          /\ skills' = Tail(SkillRoster)
          /\ current_position' = SetMin(MarkLines) + 1
          /\ IF IsProfLine(SetMin(MarkLines))
               THEN mapped_data' = [mapped_data EXCEPT !["acrobatics_proficiency"] = TRUE]
             ELSE /\ DOMAIN mapped_data' = DOMAIN mapped_data \cup {"acrobatics_bonus"}
                  /\ mapped_data'["acrobatics_bonus"] = Trimmed(SetMin(MarkLines))
                  /\ \A k \in DOMAIN mapped_data : mapped_data'[k] = mapped_data[k]]_vars

(* Header lines were skipped and the start line, a proficiency line, has been
   filed under acrobatics. *)
C17_Witness ==
  /\ pc = "skill_loop"
  /\ skills = Tail(SkillRoster)
  /\ current_skill = "acrobatics"
  /\ mapped_data["acrobatics_proficiency"]
  /\ current_position = SetMin(MarkLines) + 1
  /\ SetMin(MarkLines) > anchor_points_map["Resistances"][2] + 1

(***************************************************************************)
(* Anchors found on another page than the one read                         *)
(***************************************************************************)

(* The anchor was found, on a page other than p. *)
AnchorOffPage(a, p) == anchor_points_map[a] # None /\ anchor_points_map[a][1] # p

(* C18: of an anchor's position only the line index is used.  A mapped field
   whose anchor was found on another page than the entry's own holds, when in
   bounds, the trimmed line of the entry's own page at anchor line + offset; with
   an anchor found off page 0 the ability parser takes its values, and the skill
   parser its start line and first filed line, from page 0. *)
C18_OnlyLineIndexUsed ==
  /\ MapHasRun =>
       \A e \in SpecEntries :
         (AnchorOffPage(e[2][2], e[2][1]) /\ InBounds(e)) =>
           /\ error.field # e[1]
           /\ pc = "mapped" =>
                /\ e[1] \in DOMAIN mapped_data
                /\ IsTrimOf(mapped_data[e[1]], TargetPage(e)[TargetIndex(e) + 1])
  /\ (/\ AbilitiesHasRun
      /\ WellFormedAbilityRange
      /\ AnchorOffPage("ABILITY SAVE DC", 0) \/ AnchorOffPage("Resistances", 0)) =>
       /\ pc = "abilities"
       /\ \A j \in 1..Len(Abilities) :
            mapped_data[Abilities[j] \o "_saving_throw"] = Trimmed(ValueLineOf(j))
  /\ (FirstSkillPass /\ AnchorOffPage("Resistances", 0)) =>
       /\ MarkLines # {}
       /\ current_position = SetMin(MarkLines)
  /\ (/\ pc \in {"skill_loop", "skills"}
      /\ skills = Tail(SkillRoster)
      /\ AnchorOffPage("Resistances", 0)
      /\ current_position = SetMin(MarkLines) + 1) =>
       IF IsProfLine(SetMin(MarkLines)) THEN mapped_data["acrobatics_proficiency"]
       ELSE /\ "acrobatics_bonus" \in DOMAIN mapped_data
            /\ mapped_data["acrobatics_bonus"] = Trimmed(SetMin(MarkLines))

(* Every anchor was found on the second page, and the run went through all its
   stages with the values of the pages the stages read. *)
C18_Witness ==
  /\ pc = "skills"
  /\ \A a \in AnchorSet : anchor_points_map[a] # None /\ anchor_points_map[a][1] = 1
  /\ WellFormedAbilityRange
  /\ mapped_data["strength_saving_throw"] = Trimmed(ValueLineOf(1))
  /\ mapped_data["size"] = "Medium"
  /\ mapped_data["name"] # "filler"
  /\ "stealth_bonus" \in DOMAIN mapped_data

(***************************************************************************)
(* Two runs on one document                                                *)
(***************************************************************************)

RunEnded == pc \in {"written", "failed"}

(* C13: a second run of the pipeline on the same document, in a process whose
   anchor table still holds what the first run left, ends with the same payload,
   instruction by instruction, or with the same failure as the first. *)
C13_SecondRunRepeatsFirst ==
  (first_run.done /\ RunEnded) => Outcome = first_run

(* Both runs built the same payload of many cells from an anchor table that the
   first run had filled. *)
C13_Witness ==
  /\ first_run.done
  /\ pc = "written"
  /\ Len(first_run.payload) > Len(SkillRoster)
  /\ batch_updates = <<first_run.payload>>

====
